---- MODULE Spec2Model ----
(***************************************************************************)
(* launcher_api (src/app.py): a Flask backend with /register and /login    *)
(* over a SQLite users table, HS256 bearer tokens with a 7 day expiry, and *)
(* /admin/update_server, a read-merge-write of data/server.json.           *)
(*                                                                         *)
(* SpecAuth and SpecContent run whole handlers one request at a time; the  *)
(* users table and server.json are disjoint resources, so each is explored *)
(* with the handlers that touch it.  SpecRegisterRace and SpecAdminRace    *)
(* split register and admin_update_server at their storage accesses and    *)
(* interleave several workers.  Spec is the whole sequential program.      *)
(***************************************************************************)
EXTENDS Integers, Sequences, FiniteSets, TLC

VARIABLES
    users,        \* rows of the SQLite table users
    now,          \* int(time.time())
    ticks,        \* how many times the clock has advanced
    client,       \* a session some client kept from a register/login response
    server_json,  \* the file data/server.json
    resp,         \* the last HTTP response sent by a whole-handler request
    worker        \* the concurrent request workers of the race specifications

vars == <<users, now, ticks, client, server_json, resp, worker>>

----------------------------------------------------------------------------
(* Bounds *)

MaxTicks == 2    \* clock advances in one behaviour
NProcs == 2      \* concurrent workers in the race specifications

----------------------------------------------------------------------------
(* Config *)

SECRET_KEY == "replace_this_with_a_secure_secret"

JWT_ALGO == "HS256"

TOKEN_EXP_SECONDS == 60 * 60 * 24 * 7

----------------------------------------------------------------------------
(* Request values.  A string is a sequence of characters; a JSON field is  *)
(* absent, a string, or a non-string truthy value such as the number 1.    *)

\* Usernames as sent: empty, blank, padded on either side, and two that
\* differ only in case.
UsernameStrings == {<<>>, <<" ">>, <<"a">>, <<" ", "a">>, <<"a", " ">>, <<"A">>}

PasswordStrings == {<<>>, <<"a">>, <<"A">>}

Missing == [t |-> "missing", s |-> <<>>]

Num == [t |-> "num", s |-> <<>>]

Str(s) == [t |-> "str", s |-> s]

UsernameValues == {Missing, Num} \cup {Str(s) : s \in UsernameStrings}

PasswordValues == {Missing, Num} \cup {Str(s) : s \in PasswordStrings}

Malformed == [kind |-> "malformed"]

Json(v) == [kind |-> "json", value |-> v]

Credentials == [username : UsernameValues, password : PasswordValues]

EmptyCredentials == [username |-> Missing, password |-> Missing]

CredentialBodies == {Malformed} \cup {Json(c) : c \in Credentials}

\* request.get_json(force=True): the parsed body; a body that is not JSON
\* raises werkzeug's BadRequest.
get_json(raw) ==
    IF raw.kind = "malformed" THEN [raised |-> TRUE] ELSE [raised |-> FALSE, value |-> raw.value]

\* Python truthiness of a field value: None and "" are falsy.
Truthy(v) == v.t = "num" \/ (v.t = "str" /\ v.s # <<>>)

\* `x or ""`
OrEmpty(v) == IF Truthy(v) THEN v ELSE Str(<<>>)

RECURSIVE lstrip(_)
lstrip(s) == IF s # <<>> /\ Head(s) = " " THEN lstrip(Tail(s)) ELSE s

RECURSIVE rstrip(_)
rstrip(s) == IF s # <<>> /\ s[Len(s)] = " " THEN rstrip(SubSeq(s, 1, Len(s) - 1)) ELSE s

\* str.strip()
strip(s) == rstrip(lstrip(s))

----------------------------------------------------------------------------
(* Responses: the HTTP status and the JSON body; an unhandled exception or *)
(* an HTTPException leaves Flask's HTML error page.                        *)

NoResp == [route |-> "", http |-> 0, body |-> [html |-> ""]]

JsonError(route, code, message) ==
    [route |-> route, http |-> code, body |-> [status |-> "error", message |-> message]]

BadRequest(route) == [route |-> route, http |-> 400, body |-> [html |-> "Bad Request"]]

InternalServerError(route) ==
    [route |-> route, http |-> 500, body |-> [html |-> "Internal Server Error"]]

----------------------------------------------------------------------------
(* Password hashing (werkzeug.security) and tokens (PyJWT), as symbolic    *)
(* terms: two digests or two signatures are equal exactly when they were   *)
(* computed from the same inputs.  The random salt of a new hash is a      *)
(* value no earlier hash used, passed in by the caller.                    *)

PBKDF2(salt, password) == <<"pbkdf2", salt, password>>

generate_password_hash(password, salt) == [salt |-> salt, digest |-> PBKDF2(salt, password)]

check_password_hash(pw_hash, password) == PBKDF2(pw_hash.salt, password) = pw_hash.digest

HMAC(key, algo, payload) == <<algo, key, payload>>

NoPayload == [uid |-> 0, username |-> <<>>, iat |-> 0, exp |-> 0]

NoToken == [payload |-> NoPayload, sig |-> <<"none", "", NoPayload>>]

\* Mutant of create_token: the row id taken zero-based.
create_token_zero_based(user_id, username, t) ==
    LET payload == [uid |-> user_id - 1, username |-> username,
                    iat |-> t, exp |-> t + TOKEN_EXP_SECONDS]
    IN  [payload |-> payload, sig |-> HMAC(SECRET_KEY, JWT_ALGO, payload)]

create_token(user_id, username, t) ==
    LET payload == [uid |-> user_id, username |-> username,
                    iat |-> t, exp |-> t + TOKEN_EXP_SECONDS]
    IN  [payload |-> payload, sig |-> HMAC(SECRET_KEY, JWT_ALGO, payload)]

\* Mutant of verify_token: a token still accepted in the second it expires.
verify_token_inclusive(token, t) ==
    IF /\ token.sig = HMAC(SECRET_KEY, JWT_ALGO, token.payload)
       /\ token.payload.exp >= t
    THEN [valid |-> TRUE, payload |-> token.payload]
    ELSE [valid |-> FALSE, payload |-> NoPayload]

\* jwt.decode: the signature is recomputed and compared, then exp is
\* checked against the clock; any failure is None.
verify_token(token, t) ==
    IF /\ token.sig = HMAC(SECRET_KEY, JWT_ALGO, token.payload)
       /\ token.payload.exp > t
    THEN [valid |-> TRUE, payload |-> token.payload]
    ELSE [valid |-> FALSE, payload |-> NoPayload]

NoSession == [token |-> NoToken, username |-> <<>>, at |-> 0]

\* What a client may hold after a response carrying a token: it keeps the
\* session it had, or the new one.
Keep(token, username) ==
    client' \in {client, [token |-> token, username |-> username, at |-> now]}

----------------------------------------------------------------------------
(* The users table *)

Lower(s) == [i \in 1..Len(s) |-> IF s[i] = "A" THEN "a" ELSE s[i]]

\* Mutant of SelectUser: the column compared without regard to case
\* (COLLATE NOCASE).
SelectUser_nocase(table, username) ==
    {row \in table : Lower(row.username) = Lower(username)}

\* SELECT ... FROM users WHERE username=?  (BINARY collation: exact match)
SelectUser(table, username) == {row \in table : row.username = username}

\* INTEGER PRIMARY KEY AUTOINCREMENT; rows are never deleted.
NextRowId(table) ==
    IF table = {} THEN 1
    ELSE 1 + (CHOOSE m \in {row.id : row \in table} : \A row \in table : row.id <= m)

\* INSERT INTO users: the UNIQUE constraint on username raises
\* sqlite3.IntegrityError and inserts nothing.
UniqueViolation(table, username) == \E row \in table : row.username = username

InsertUser(table, username, pw_hash, t) ==
    table \cup {[id |-> NextRowId(table), username |-> username,
                 password_hash |-> pw_hash, created_at |-> t]}

\* Lines 176-181 of register and 203-208 of login: the body, the two
\* fields and the emptiness check.  .strip() on a non-string raises.
ParseCredentials(route, raw) ==
    LET got == get_json(raw) IN
    IF got.raised THEN [ok |-> FALSE, resp |-> BadRequest(route)]
    ELSE LET u == OrEmpty(got.value.username)
             password == OrEmpty(got.value.password)
         IN  IF u.t # "str" THEN [ok |-> FALSE, resp |-> InternalServerError(route)]
             ELSE IF strip(u.s) = <<>> \/ ~Truthy(password)
                  THEN [ok |-> FALSE,
                        resp |-> JsonError(route, 400, "username and password required")]
                  ELSE [ok |-> TRUE, username |-> strip(u.s), password |-> password]

TokenResponse(route, token, username) ==
    [route |-> route, http |-> 200,
     body |-> [status |-> "ok", token |-> token, username |-> username]]

\* Lines 190-198 of register: hash, INSERT, commit, token.
\* generate_password_hash raises on a password that is not a string.
InsertOutcome(table, username, password, t) ==
    IF password.t # "str" \/ UniqueViolation(table, username)
    THEN [inserted |-> FALSE, table |-> table, resp |-> InternalServerError("/register")]
    ELSE LET salt == NextRowId(table)
             table2 == InsertUser(table, username, generate_password_hash(password.s, salt), t)
             token == create_token(NextRowId(table), username, t)
         IN  [inserted |-> TRUE, table |-> table2, token |-> token,
              resp |-> TokenResponse("/register", token, username)]

----------------------------------------------------------------------------
(* POST /register, a whole request *)

register(raw) ==
    LET p == ParseCredentials("/register", raw) IN
    /\ UNCHANGED <<now, ticks, server_json, worker>>
    /\ IF ~p.ok
       THEN /\ resp' = p.resp
            /\ UNCHANGED <<users, client>>
       ELSE IF SelectUser(users, p.username) # {}
            THEN /\ resp' = JsonError("/register", 409, "username already exists")
                 /\ UNCHANGED <<users, client>>
            ELSE LET out == InsertOutcome(users, p.username, p.password, now) IN
                 /\ users' = out.table
                 /\ resp' = out.resp
                 /\ IF out.inserted THEN Keep(out.token, p.username)
                                    ELSE UNCHANGED client

(* POST /login, a whole request *)

login(raw) ==
    LET p == ParseCredentials("/login", raw) IN
    /\ UNCHANGED <<users, now, ticks, server_json, worker>>
    /\ IF ~p.ok
       THEN /\ resp' = p.resp
            /\ UNCHANGED client
       ELSE LET rows == SelectUser(users, p.username) IN
            IF rows = {}
            THEN /\ resp' = JsonError("/login", 401, "invalid credentials")
                 /\ UNCHANGED client
            ELSE LET row == CHOOSE r \in rows : TRUE IN
                 IF p.password.t # "str"
                 THEN \* check_password_hash raises on a password that is not a string
                      /\ resp' = InternalServerError("/login")
                      /\ UNCHANGED client
                 ELSE IF ~check_password_hash(row.password_hash, p.password.s)
                      THEN /\ resp' = JsonError("/login", 401, "invalid credentials")
                           /\ UNCHANGED client
                      ELSE LET token == create_token(row.id, p.username, now) IN
                           /\ resp' = TokenResponse("/login", token, p.username)
                           /\ Keep(token, p.username)

(* time.time() moves on *)

TickSteps == {1, TOKEN_EXP_SECONDS - 1}

Tick(d) ==
    /\ ticks < MaxTicks
    /\ now' = now + d
    /\ ticks' = ticks + 1
    /\ UNCHANGED <<users, client, server_json, resp, worker>>

----------------------------------------------------------------------------
(* data/server.json and the content routes *)

ServerDefault(t) ==
    [name |-> "My SAMP Server", server_ip |-> "87.107.155.110", server_port |-> 15226,
     players_online |-> 0, max_players |-> 100, updated_at |-> t]

EmptyDoc == [k \in {} |-> 0]

PartialKeys == {"players_online", "motd", "updated_at"}

PartialValues == {5}

PartialDocs == UNION {[K -> PartialValues] : K \in SUBSET PartialKeys}

ContentBodies == {Malformed} \cup {Json(P) : P \in PartialDocs}

\* A header or query parameter: absent (None), or a string.
NoArg == [present |-> FALSE, s |-> ""]

Arg(s) == [present |-> TRUE, s |-> s]

SecretArgs == {NoArg, Arg(""), Arg("wrong"), Arg(SECRET_KEY)}

\* request.headers.get("X-ADMIN-SECRET") or request.args.get("secret")
PresentedSecret(header, query) == IF header.present /\ header.s # "" THEN header ELSE query

\* Mutant of Unauthorized: only the presence of a secret is checked.
Unauthorized_presence_only(secret) == ~(secret.present /\ secret.s # "")

\* not secret or secret != SECRET_KEY
Unauthorized(secret) == ~(secret.present /\ secret.s # "") \/ secret.s # SECRET_KEY

\* open + json.load: a file that holds no complete document raises.
read_json_file(file) ==
    IF file.state = "json" THEN [raised |-> FALSE, data |-> file.doc] ELSE [raised |-> TRUE]

\* Mutant of MergeUpdate: the timestamp set before the merge, so that an
\* updated_at of the body overwrites it.
MergeUpdate_stamp_first(srv, body, t) ==
    [k \in DOMAIN srv \cup DOMAIN body \cup {"updated_at"} |->
        IF k \in DOMAIN body THEN body[k]
        ELSE IF k = "updated_at" THEN t ELSE srv[k]]

\* srv.update(body); srv["updated_at"] = int(time.time())
MergeUpdate(srv, body, t) ==
    [k \in DOMAIN srv \cup DOMAIN body \cup {"updated_at"} |->
        IF k = "updated_at" THEN t
        ELSE IF k \in DOMAIN body THEN body[k] ELSE srv[k]]

ServerResponse(srv) ==
    [route |-> "/admin/update_server", http |-> 200, body |-> [status |-> "ok", server |-> srv]]

\* Lines 229-236 of admin_update_server: the secret, the body, the read of
\* server.json and the merge, up to the document about to be written.
MergeOutcome(file, header, query, raw, t) ==
    IF Unauthorized(PresentedSecret(header, query))
    THEN [write |-> FALSE, resp |-> JsonError("/admin/update_server", 401, "unauthorized")]
    ELSE LET got == get_json(raw) IN
         IF got.raised THEN [write |-> FALSE, resp |-> BadRequest("/admin/update_server")]
         ELSE LET read == read_json_file(file) IN
              IF read.raised
              THEN [write |-> FALSE, resp |-> InternalServerError("/admin/update_server")]
              ELSE [write |-> TRUE, body |-> got.value,
                    srv |-> MergeUpdate(read.data, got.value, t)]

(* POST /admin/update_server, a whole request *)

admin_update_server(header, query, raw) ==
    LET out == MergeOutcome(server_json, header, query, raw, now) IN
    /\ UNCHANGED <<users, now, ticks, client, worker>>
    /\ IF out.write
       THEN /\ server_json' = [state |-> "json", doc |-> out.srv]
            /\ resp' = ServerResponse(out.srv)
       ELSE /\ resp' = out.resp
            /\ UNCHANGED server_json

(* GET /server_status, a whole request *)

server_status ==
    LET read == read_json_file(server_json) IN
    /\ resp' = IF read.raised THEN InternalServerError("/server_status")
               ELSE [route |-> "/server_status", http |-> 200, body |-> read.data]
    /\ UNCHANGED <<users, now, ticks, client, server_json, worker>>

----------------------------------------------------------------------------
(* Concurrent workers.  Each worker serves one request, a step at a time:  *)
(* a step is what the handler does up to and including one access to the   *)
(* database or to the file.                                                *)

Procs == 1..NProcs

Idle == [pc |-> "idle"]

Done(route, asked, r) == [pc |-> "done", route |-> route, asked |-> asked, resp |-> r]

\* register, lines 176-188: parse, then the SELECT.
RegSelect(p, raw) ==
    LET parsed == ParseCredentials("/register", raw) IN
    /\ worker[p].pc = "idle"
    /\ worker' = [worker EXCEPT ![p] =
          IF ~parsed.ok THEN Done("/register", raw, parsed.resp)
          ELSE IF SelectUser(users, parsed.username) # {}
               THEN Done("/register", raw,
                         JsonError("/register", 409, "username already exists"))
               ELSE [pc |-> "insert", asked |-> raw,
                     username |-> parsed.username, password |-> parsed.password]]
    /\ UNCHANGED <<users, now, ticks, client, server_json, resp>>

\* register, lines 190-198: hash, the INSERT and its commit, the token.
RegInsert(p) ==
    /\ worker[p].pc = "insert"
    /\ LET out == InsertOutcome(users, worker[p].username, worker[p].password, now) IN
       /\ users' = out.table
       /\ worker' = [worker EXCEPT ![p] = Done("/register", worker[p].asked, out.resp)]
    /\ UNCHANGED <<now, ticks, client, server_json, resp>>

\* admin_update_server, lines 229-236: the read of server.json and the merge.
AdmRead(p, header, query, raw) ==
    LET out == MergeOutcome(server_json, header, query, raw, now) IN
    /\ worker[p].pc = "idle"
    /\ worker' = [worker EXCEPT ![p] =
          IF out.write THEN [pc |-> "merged", asked |-> out.body, srv |-> out.srv]
          ELSE Done("/admin/update_server", EmptyDoc, out.resp)]
    /\ UNCHANGED <<users, now, ticks, client, server_json, resp>>

\* admin_update_server, line 237: open(path, "w") empties the file.
AdmOpen(p) ==
    /\ worker[p].pc = "merged"
    /\ server_json' = [state |-> "truncated", doc |-> EmptyDoc]
    /\ worker' = [worker EXCEPT ![p].pc = "opened"]
    /\ UNCHANGED <<users, now, ticks, client, resp>>

\* admin_update_server, lines 238-239: json.dump, close, the response.
\* The dump is taken to replace the content; bytes of a longer dump by
\* another writer that would stay behind a shorter one are left out.
AdmDump(p) ==
    /\ worker[p].pc = "opened"
    /\ server_json' = [state |-> "json", doc |-> worker[p].srv]
    /\ worker' = [worker EXCEPT ![p] =
          Done("/admin/update_server", worker[p].asked, ServerResponse(worker[p].srv))]
    /\ UNCHANGED <<users, now, ticks, client, resp>>

----------------------------------------------------------------------------
(* Specifications *)

Init ==
    /\ users = {}
    /\ now = 0
    /\ ticks = 0
    /\ client = NoSession
    /\ server_json = [state |-> "json", doc |-> ServerDefault(0)]
    /\ resp = NoResp
    /\ worker = [p \in Procs |-> Idle]

NextAuth ==
    \/ \E raw \in CredentialBodies : register(raw)
    \/ \E raw \in CredentialBodies : login(raw)
    \/ \E d \in TickSteps : Tick(d)

NextContent ==
    \/ \E header \in SecretArgs, query \in SecretArgs, raw \in ContentBodies :
          admin_update_server(header, query, raw)
    \/ server_status
    \/ \E d \in TickSteps : Tick(d)

NextRegisterRace ==
    \/ \E p \in Procs, raw \in CredentialBodies : RegSelect(p, raw)
    \/ \E p \in Procs : RegInsert(p)
    \/ \E d \in TickSteps : Tick(d)

NextAdminRace ==
    \/ \E p \in Procs, header \in SecretArgs, query \in SecretArgs, raw \in ContentBodies :
          AdmRead(p, header, query, raw)
    \/ \E p \in Procs : AdmOpen(p)
    \/ \E p \in Procs : AdmDump(p)
    \/ server_status
    \/ \E d \in TickSteps : Tick(d)

Next == NextAuth \/ NextContent

Spec == Init /\ [][Next]_vars

SpecAuth == Init /\ [][NextAuth]_vars

SpecContent == Init /\ [][NextContent]_vars

SpecRegisterRace == Init /\ [][NextRegisterRace]_vars

SpecAdminRace == Init /\ [][NextAdminRace]_vars

----------------------------------------------------------------------------
(* Properties *)

SevenDays == 604800

\* A username or password field as the properties read them.
BlankUsername(v) == v.t = "missing" \/ (v.t = "str" /\ strip(v.s) = <<>>)

EmptyPassword(v) == v.t = "missing" \/ (v.t = "str" /\ v.s = <<>>)

\* Requests carrying a username and a password that are non-empty strings.
StringCredentials ==
    {c \in Credentials : /\ c.username.t = "str" /\ strip(c.username.s) # <<>>
                         /\ c.password.t = "str" /\ c.password.s # <<>>}

\* The secret a request presents (the header, else the query parameter) is
\* the configured one.
CorrectSecret(header, query) ==
    \/ header.present /\ header.s = SECRET_KEY
    \/ ~(header.present /\ header.s # "") /\ query.present /\ query.s = SECRET_KEY

C2_InvalidInput ==
    [][\A c \in Credentials :
         (register(Json(c)) /\ (BlankUsername(c.username) \/ EmptyPassword(c.password))) =>
            /\ resp' = JsonError("/register", 400, "username and password required")
            /\ users' = users
            /\ client' = client]_vars

\* C3: a token a client kept from a register or login response validates,
\* at every time before issue time + 7 days, and whenever it validates its
\* payload names the username of that response and the id of that
\* username's row.
C3_TokenIdentity ==
    client # NoSession =>
      LET v == verify_token(client.token, now) IN
      /\ now < client.at + SevenDays => v.valid
      /\ v.valid =>
           /\ v.payload.username = client.username
           /\ \E row \in users : row.username = client.username /\ row.id = v.payload.uid
           /\ \A row \in users : row.id = v.payload.uid => row.username = client.username

\* C3 witness: a kept token still validates after time has passed and
\* another user has registered since it was issued.
C3_Witness ==
    /\ client # NoSession
    /\ verify_token(client.token, now).valid
    /\ now > client.at
    /\ \E row \in users : row.created_at > client.at /\ row.username # client.username

\* C4: an issued token carries exp = issue time + 604800; it validates
\* only while exp > now, never at or after issue time + 604800; and, the
\* clock not going back, a kept token that fails validation fails it ever
\* after.
C4_Expiry ==
    /\ [](client # NoSession =>
            /\ client.token.payload.exp = client.at + SevenDays
            /\ verify_token(client.token, now).valid => client.token.payload.exp > now
            /\ now >= client.at + SevenDays => ~verify_token(client.token, now).valid)
    /\ [][(/\ client # NoSession
           /\ client' = client
           /\ ~verify_token(client.token, now).valid)
          => ~verify_token(client.token, now').valid]_vars

\* C4 witness: the clock stands exactly at a kept token's expiry.
C4_Witness ==
    /\ client # NoSession
    /\ now = client.at + SevenDays
    /\ ~verify_token(client.token, now).valid

\* C5: a login with a non-empty username and password succeeds with a
\* token exactly when the username has a row whose verifier the password
\* matches; every other such login gets the one response 401 'invalid
\* credentials', whether or not the username has a row; login never
\* changes the table.
C5_UniformFailure ==
    [][\A c \in Credentials :
         (/\ login(Json(c))
          /\ c.username.t = "str" /\ strip(c.username.s) # <<>>
          /\ Truthy(c.password)) =>
            LET u == strip(c.username.s)
                matches == \E row \in users :
                              /\ row.username = u
                              /\ c.password.t = "str"
                              /\ check_password_hash(row.password_hash, c.password.s)
            IN  /\ users' = users
                /\ IF matches
                   THEN resp'.http = 200 /\ resp'.body.token # NoToken
                   ELSE /\ resp' = JsonError("/login", 401, "invalid credentials")
                        /\ client' = client]_vars

\* C6: an authorized update with partial document P on stored document D
\* persists and returns a document that equals P on every key of P but
\* updated_at, equals D on every other key of D not in P, and whose
\* updated_at is the current time, not before D's.
C6_MergeUpdate ==
    [][\A header \in SecretArgs, query \in SecretArgs, P \in PartialDocs :
         (admin_update_server(header, query, Json(P)) /\ CorrectSecret(header, query)) =>
            LET D == server_json.doc
                D2 == server_json'.doc
            IN  /\ server_json'.state = "json"
                /\ resp' = ServerResponse(D2)
                /\ DOMAIN D2 = DOMAIN D \cup DOMAIN P \cup {"updated_at"}
                /\ \A k \in DOMAIN P \ {"updated_at"} : D2[k] = P[k]
                /\ \A k \in DOMAIN D \ (DOMAIN P \cup {"updated_at"}) : D2[k] = D[k]
                /\ D2["updated_at"] = now
                /\ D2["updated_at"] >= D["updated_at"]]_vars

\* C6 witness: an update that carried motd was applied after the clock
\* moved: motd is stored, players_online is kept, updated_at is the time
\* of the update.
C6_Witness ==
    /\ resp = ServerResponse(server_json.doc)
    /\ "motd" \in DOMAIN server_json.doc
    /\ server_json.doc["players_online"] = 0
    /\ server_json.doc["updated_at"] = now
    /\ now > 0

C8_MalformedAsEmpty ==
    [][/\ register(Malformed) => register(Json(EmptyCredentials))
       /\ login(Malformed) => login(Json(EmptyCredentials))
       /\ \A header \in SecretArgs, query \in SecretArgs :
            admin_update_server(header, query, Malformed) =>
               admin_update_server(header, query, Json(EmptyDoc))]_vars

\* The finished workers that asked to register string credentials whose
\* trimmed username is u.
Registered(u) ==
    {p \in Procs : /\ worker[p].pc = "done"
                   /\ worker[p].route = "/register"
                   /\ worker[p].asked.kind = "json"
                   /\ worker[p].asked.value \in StringCredentials
                   /\ strip(worker[p].asked.value.username.s) = u}

\* C9: of the register requests for one username that have finished,
\* however their steps interleaved, exactly one got 200 with a token, every
\* other got the JSON 409, and the table holds one row for the username.
C9_ConcurrentRegister ==
    \A u \in {strip(s) : s \in UsernameStrings} :
      Registered(u) # {} =>
        /\ Cardinality({p \in Registered(u) : worker[p].resp.http = 200}) = 1
        /\ \A p \in Registered(u) :
             \/ worker[p].resp.http = 200 /\ worker[p].resp.body.token # NoToken
             \/ worker[p].resp = JsonError("/register", 409, "username already exists")
        /\ Cardinality(SelectUser(users, u)) = 1

\* The workers whose update request was answered 200.
Updated == {p \in Procs : /\ worker[p].pc = "done"
                          /\ worker[p].route = "/admin/update_server"
                          /\ worker[p].resp.http = 200}

\* Once two concurrent authorized updates with disjoint keys have both
\* finished, server.json holds the fields of both.
NoLostUpdate ==
    \A p, q \in Updated :
      (p # q /\ DOMAIN worker[p].asked \cap DOMAIN worker[q].asked = {}) =>
         /\ server_json.state = "json"
         /\ \A k \in DOMAIN worker[p].asked : server_json.doc[k] = worker[p].asked[k]

\* Every /server_status request reads a complete document.
CompleteReads == resp.route = "/server_status" => resp.http = 200

\* C10: concurrent authorized updates with disjoint keys lose no update,
\* and every reader of /server_status sees a complete document.
C10_ConcurrentUpdate == NoLostUpdate /\ CompleteReads

====
